---- MODULE Spec2Model ----
(***************************************************************************)
(* The resumable batch-job dispatcher of multicore-monitor (main.py): a    *)
(* workbook of work items, a pool of n_cores worker processes, and the     *)
(* single dispatching process that marks, saves, submits and commits.      *)
(*                                                                         *)
(* The workbook on disk (disk) and the workbook object in memory (ws) are  *)
(* separate: wb.save copies ws to disk.  A row is the status region of one *)
(* data row plus its output-field columns.  A text is a sequence of        *)
(* tokens: a token is one whitespace character (" ", TAB, NL) or a         *)
(* maximal run of other characters.                                        *)
(***************************************************************************)
EXTENDS Integers, Sequences, FiniteSets, TLC

VARIABLES
    cfg_file,        \* the raw lines of input.txt
    cpu_count,       \* multiprocessing.cpu_count() of the host
    disk,            \* input_file.xlsx as last saved: row number -> row
    ws,              \* the worksheet in memory: row number -> row
    pc,              \* position of the dispatching process in main()
    exit_code,       \* exit status of the process, -1 while it runs
    input_col_count, \* load_config's first result
    n_cores,         \* find_available_cores()
    pending_batches, \* the list built at line 132 (row numbers)
    futures,         \* submission index -> in-flight execution
    next_to_submit,  \* index into pending_batches (0-based, as in the code)
    done,            \* the set wait() returned, not yet iterated
    now,             \* the wall clock, in seconds
    store0,          \* the store as the current run found it
    crashed,         \* the dispatcher was killed once and started again
    outcome          \* row number -> what its execution did in this run

vars == <<cfg_file, cpu_count, disk, ws, pc, exit_code, input_col_count, n_cores,
          pending_batches, futures, next_to_submit, done, now, store0, crashed,
          outcome>>

(***************************************************************************)
(* Bounds of the model.                                                    *)
(***************************************************************************)
MaxItems == 3
MaxCpu == 4
MaxClock == 2
MaxLines == 3

(***************************************************************************)
(* Program constants.                                                      *)
(***************************************************************************)
ReservedCores == 2
max_output_clear == 50

Items == 1..MaxItems

TAB == "\t"
NL == "\n"
SP == " "
None == "None"

Max(a, b) == IF a >= b THEN a ELSE b
Min(a, b) == IF a <= b THEN a ELSE b

(***************************************************************************)
(* str.strip(), str.split('\n')[0], str.split('\t') on token sequences.    *)
(***************************************************************************)
IsSpace(t) == t \in {SP, TAB, NL}

RECURSIVE LStrip(_)
LStrip(s) == IF s # <<>> /\ IsSpace(Head(s)) THEN LStrip(Tail(s)) ELSE s

RECURSIVE RStrip(_)
RStrip(s) ==
    IF s # <<>> /\ IsSpace(s[Len(s)]) THEN RStrip(SubSeq(s, 1, Len(s) - 1)) ELSE s

Strip(s) == RStrip(LStrip(s))

\* s.split(sep)[0]: everything before the first sep
UpTo(s, sep) ==
    LET at == {k \in 1..Len(s) : s[k] = sep}
    IN  IF at = {} THEN s
        ELSE SubSeq(s, 1, (CHOOSE k \in at : \A j \in at : k <= j) - 1)

\* s.split(sep): the pieces between the separators, empty pieces included
RECURSIVE Split(_, _)
Split(s, sep) ==
    LET first == UpTo(s, sep)
    IN  IF Len(first) = Len(s)
        THEN <<first>>
        ELSE <<first>> \o Split(SubSeq(s, Len(first) + 2, Len(s)), sep)

(***************************************************************************)
(* load_config (lines 20-31).  A line is a sequence of characters.         *)
(***************************************************************************)
Digits == {"0", "1", "2"}

DigitValue(c) == CASE c = "0" -> 0 [] c = "1" -> 1 [] c = "2" -> 2

RECURSIVE DigitsValue(_)
DigitsValue(s) ==
    IF s = <<>> THEN 0 ELSE 10 * DigitsValue(SubSeq(s, 1, Len(s) - 1)) + DigitValue(s[Len(s)])

AllDigits(s) == s # <<>> /\ \A k \in 1..Len(s) : s[k] \in Digits

\* int(text) succeeds
IsIntLiteral(s) ==
    \/ AllDigits(s)
    \/ s # <<>> /\ Head(s) = "-" /\ AllDigits(Tail(s))

\* int(text), where it succeeds
IntValue(s) == IF Head(s) = "-" THEN 0 - DigitsValue(Tail(s)) ELSE DigitsValue(s)

\* [line.strip() for line in f if line.strip()]
RECURSIVE StrippedLines(_)
StrippedLines(file) ==
    IF file = <<>> THEN <<>>
    ELSE IF Strip(Head(file)) = <<>> THEN StrippedLines(Tail(file))
         ELSE <<Strip(Head(file))>> \o StrippedLines(Tail(file))

\* TRUE when the try block raises, so that the except branch runs sys.exit(1)
load_config_raises(file) ==
    LET lines == StrippedLines(file)
    IN  IF Len(lines) < 2 THEN TRUE ELSE ~IsIntLiteral(lines[1])

load_config(file) ==
    LET lines == StrippedLines(file)
    IN  [num_columns |-> IntValue(lines[1]), exe_name |-> lines[2]]

\* line 17 without max(1, ...)
find_available_cores_unclamped(total) == total - ReservedCores

\* find_available_cores (lines 15-17)
find_available_cores(total) == Max(1, total - ReservedCores)

(***************************************************************************)
(* The work store.  A status cell holds a string (None for an empty       *)
(* cell); a time cell holds seconds (0 for an empty cell); the core cell   *)
(* holds k for "Core k" (0 for an empty cell); an output-field cell is     *)
(* <<>> when empty and <<field>> when it holds a field.  out lists the     *)
(* output-field columns from output_start_col on, up to the last non-empty *)
(* one.                                                                    *)
(***************************************************************************)
NoCell == <<>>
Cell(v) == <<v>>

RECURSIVE TrimCells(_)
TrimCells(cells) ==
    IF cells # <<>> /\ cells[Len(cells)] = NoCell
    THEN TrimCells(SubSeq(cells, 1, Len(cells) - 1))
    ELSE cells

\* the cell at 0-based offset from output_start_col
CellAt(cells, offset) == IF offset + 1 <= Len(cells) THEN cells[offset + 1] ELSE NoCell

BlankRow ==
    [status |-> None, start_time |-> 0, end_time |-> 0, core |-> 0,
     output |-> None, out |-> <<>>]

\* str(value).strip().lower() of a status cell (line 50, line 132)
Lowered(v) ==
    CASE v = "Running " -> "running"
      [] v = "Completed" -> "completed"
      [] v = "Pending" -> "pending"
      [] v = None -> "none"
      [] OTHER -> v

\* str(value).strip().lower() if value else "" (line 127)
LoweredOrEmpty(v) == IF v = None \/ v = "" THEN "" ELSE Lowered(v)

Field(word) == <<word>>

OldFields(n) == [k \in 1..n |-> Cell(Field("old"))]

\* rows a workbook can hold when the dispatcher starts
StoredRows ==
    { [BlankRow EXCEPT !.status = "pending"],
      [BlankRow EXCEPT !.status = "running"],
      [status |-> "completed", start_time |-> 1, end_time |-> 1, core |-> 1,
       output |-> "", out |-> OldFields(2)],
      [status |-> "error", start_time |-> 1, end_time |-> 1, core |-> 2,
       output |-> "", out |-> OldFields(5)] }

(***************************************************************************)
(* ensure_status_columns (lines 34-45): the column numbers of the status   *)
(* region, which main() places right after the input columns (line 110).   *)
(***************************************************************************)
STATUS_COL_HEADERS == <<"Status", "Start Time", "End Time", "CPU Core Used", "Output">>

\* line 110 passing input_col_count instead of input_col_count + 1
ensure_status_columns_shifted(start_col) ==
    [status |-> start_col - 1, start_time |-> start_col, end_time |-> start_col + 1,
     core |-> start_col + 2, output |-> start_col + 3,
     next_after_status |-> start_col - 1 + Len(STATUS_COL_HEADERS)]

ensure_status_columns(start_col) ==
    [status |-> start_col, start_time |-> start_col + 1, end_time |-> start_col + 2,
     core |-> start_col + 3, output |-> start_col + 4,
     next_after_status |-> start_col + Len(STATUS_COL_HEADERS)]

\* the column, if the two values in it differ
ColumnIf(differ, column) == IF differ THEN {column} ELSE {}

\* the sheet columns in which two values of one row differ, the row's fields
\* standing in the columns lines 110-112 give them
ColumnsChanged(old, new, num_columns) ==
    LET status_cols == ensure_status_columns(num_columns + 1)
        output_start_col == status_cols.next_after_status
    IN  ColumnIf(old.status # new.status, status_cols.status)
        \cup ColumnIf(old.start_time # new.start_time, status_cols.start_time)
        \cup ColumnIf(old.end_time # new.end_time, status_cols.end_time)
        \cup ColumnIf(old.core # new.core, status_cols.core)
        \cup ColumnIf(old.output # new.output, status_cols.output)
        \cup {output_start_col + offset :
                  offset \in {o \in 0..(Max(Len(old.out), Len(new.out)) - 1) :
                                 CellAt(old.out, o) # CellAt(new.out, o)}}

(***************************************************************************)
(* reset_running_on_resume (lines 48-51) and the normalisation of lines    *)
(* 124-129, on the worksheet in memory.                                    *)
(***************************************************************************)
\* lines 48-51 with the rewrite left out
reset_running_skipped(sheet) == sheet

\* line 50 comparing the cell as it is, without strip() and lower()
reset_running_exact(sheet) ==
    [r \in DOMAIN sheet |->
        IF sheet[r].status = "running"
        THEN [sheet[r] EXCEPT !.status = "pending"]
        ELSE sheet[r]]

reset_running_on_resume(sheet) ==
    [r \in DOMAIN sheet |->
        IF Lowered(sheet[r].status) = "running"
        THEN [sheet[r] EXCEPT !.status = "pending"]
        ELSE sheet[r]]

\* lines 124-129 with "completed" missing from the known statuses
mark_unknown_pending_redo(sheet) ==
    [r \in DOMAIN sheet |->
        IF LoweredOrEmpty(sheet[r].status) \notin {"pending", "running"}
        THEN [sheet[r] EXCEPT !.status = "pending"]
        ELSE sheet[r]]

mark_unknown_pending(sheet) ==
    [r \in DOMAIN sheet |->
        IF LoweredOrEmpty(sheet[r].status) \notin {"pending", "running", "completed"}
        THEN [sheet[r] EXCEPT !.status = "pending"]
        ELSE sheet[r]]

\* the rows of line 132, in sheet order
RECURSIVE PendingFrom(_, _)
PendingFrom(sheet, r) ==
    IF r \notin DOMAIN sheet THEN <<>>
    ELSE IF Lowered(sheet[r].status) = "pending"
         THEN <<r>> \o PendingFrom(sheet, r + 1)
         ELSE PendingFrom(sheet, r + 1)

\* line 132 over a batches list that holds every row twice
pending_rows_doubled(sheet) ==
    LET p == PendingFrom(sheet, 1)
    IN  [k \in 1..(2 * Len(p)) |-> p[(k + 1) \div 2]]

\* line 132 over the batches list in reverse
pending_rows_reversed(sheet) ==
    LET p == PendingFrom(sheet, 1)
    IN  [k \in 1..Len(p) |-> p[Len(p) + 1 - k]]

pending_rows(sheet) == PendingFrom(sheet, 1)

(***************************************************************************)
(* The executor adapter: run_exe_on_batch (lines 54-65) and process_batch  *)
(* (lines 68-83).  A program behaviour is what subprocess.run meets.       *)
(***************************************************************************)
StdoutOK == <<"OK", TAB, "done", NL>>

ExitZero == [launch |-> TRUE, exit |-> "zero", stdout |-> StdoutOK, stderr |-> <<>>]
ExitNonZero == [launch |-> TRUE, exit |-> "nonzero", stdout |-> <<"partial", NL>>, stderr |-> <<"bad">>]
NoLaunch == [launch |-> FALSE, exit |-> "none", stdout |-> <<>>, stderr |-> <<>>]

Behaviours == {ExitZero, ExitNonZero, NoLaunch}

\* what one execution meets: the program's behaviour, and whether the artifact
\* file can be written
Executions ==
    { [prog |-> ExitZero, file_ok |-> TRUE],
      [prog |-> ExitNonZero, file_ok |-> TRUE],
      [prog |-> NoLaunch, file_ok |-> FALSE] }

\* a program whose first line starts with a tab, one that prints a blank line
\* first, one whose first line ends with a tab, and one that does none of these
TabbedStdouts ==
    { <<TAB, "A", TAB, "B", NL>>, <<NL, "C", TAB, "D", NL>>, <<"E", TAB, NL>>,
      StdoutOK }

\* a first line of max_output_clear + 1 fields
LongStdout ==
    [k \in 1..(2 * (max_output_clear + 1)) |->
        IF k = 2 * (max_output_clear + 1) THEN NL ELSE IF k % 2 = 1 THEN "f" ELSE TAB]

\* what an execution of the program named on line 2 of input.txt can meet
ExecutionsOf(exe_name) ==
    IF exe_name = <<"t">>
    THEN {[prog |-> [ExitZero EXCEPT !.stdout = text], file_ok |-> TRUE] : text \in TabbedStdouts}
    ELSE IF exe_name = <<"w">>
         THEN {[prog |-> [ExitZero EXCEPT !.stdout = LongStdout], file_ok |-> TRUE],
               [prog |-> ExitZero, file_ok |-> TRUE]}
         ELSE Executions

\* str(e) of the exception subprocess.run raises
ExceptionText(prog) ==
    IF prog.launch
    THEN <<"Command", SP, "returned", SP, "non-zero", SP, "exit", SP, "status">>
    ELSE <<"[Errno", SP, "2]", SP, "No", SP, "such", SP, "file">>

TracebackText == <<"Traceback", SP, "(most", SP, "recent", SP, "call", SP, "last):", NL>>

run_exe_on_batch(prog) ==
    IF prog.launch /\ prog.exit = "zero"
    THEN [outs |-> prog.stdout, stderr |-> prog.stderr]
    ELSE [outs |-> <<"[ERROR]", SP, "Exception:", SP>> \o ExceptionText(prog) \o <<NL>>
                     \o TracebackText \o <<NL>> \o prog.stderr,
          stderr |-> prog.stderr]

\* lines 68-83 with the status taken from the program's exit
process_batch_by_exit(row_idx, prog, file_ok, core_no, start, end) ==
    [r_idx |-> row_idx,
     status |-> IF prog.launch /\ prog.exit = "zero" THEN "completed" ELSE "error",
     start |-> start, end |-> end, core |-> core_no + 1,
     full_output |-> run_exe_on_batch(prog).outs]

\* lines 68-83 with line 81 left out
process_batch_without_note(row_idx, prog, file_ok, core_no, start, end) ==
    [r_idx |-> row_idx, status |-> "completed", start |-> start, end |-> end,
     core |-> core_no + 1, full_output |-> run_exe_on_batch(prog).outs]

process_batch(row_idx, prog, file_ok, core_no, start, end) ==
    LET ran == run_exe_on_batch(prog)
        outs == IF file_ok THEN ran.outs
                ELSE ran.outs \o <<NL, "[ERROR", SP, "writing", SP, "output", SP, "file]:">>
    IN  [r_idx |-> row_idx, status |-> "completed", start |-> start, end |-> end,
         core |-> core_no + 1, full_output |-> outs]

(***************************************************************************)
(* The result writer (lines 162-181), on the worksheet in memory.          *)
(***************************************************************************)
first_line(full_output) ==
    IF full_output # <<>> THEN UpTo(Strip(full_output), NL) ELSE <<>>

output_fields(full_output) ==
    IF first_line(full_output) # <<>> THEN Split(first_line(full_output), TAB) ELSE <<>>

\* lines 176-178: for offset in range(max_output_clear): cell = None
clear_outputs(cells) ==
    TrimCells([k \in 1..Len(cells) |->
                  IF k - 1 \in 0..(max_output_clear - 1) THEN NoCell ELSE cells[k]])

\* lines 180-181: for i, val in enumerate(output_fields): cell = val
write_outputs(cells, fields) ==
    TrimCells([k \in 1..Max(Len(cells), Len(fields)) |->
                  IF k - 1 \in 0..(Len(fields) - 1) THEN Cell(fields[k]) ELSE CellAt(cells, k - 1)])

\* lines 162-181 with the clearing loop of lines 177-178 run over every row
commit_result_clearing_all(sheet, res) ==
    [r \in DOMAIN sheet |->
        IF r = res.r_idx
        THEN [status |-> res.status, start_time |-> res.start, end_time |-> res.end,
              core |-> res.core, output |-> "",
              out |-> write_outputs(clear_outputs(sheet[r].out),
                                    output_fields(res.full_output))]
        ELSE [sheet[r] EXCEPT !.out = clear_outputs(@)]]

\* lines 162-181 with the cells of lines 164 and 165 exchanged
commit_result_times_swapped(sheet, res) ==
    [sheet EXCEPT ![res.r_idx] =
        [status |-> res.status, start_time |-> res.end, end_time |-> res.start,
         core |-> res.core, output |-> "",
         out |-> write_outputs(clear_outputs(@.out), output_fields(res.full_output))]]

commit_result(sheet, res) ==
    [sheet EXCEPT ![res.r_idx] =
        [status |-> res.status, start_time |-> res.start, end_time |-> res.end,
         core |-> res.core, output |-> "",
         out |-> write_outputs(clear_outputs(@.out), output_fields(res.full_output))]]

\* line 157 left out
mark_error_skipped(sheet, row_idx) == sheet

\* line 157 followed by a reset of the rest of the row
mark_error_clearing(sheet, row_idx) ==
    [sheet EXCEPT ![row_idx] = [BlankRow EXCEPT !.status = "error"]]

\* line 157
mark_error(sheet, row_idx) == [sheet EXCEPT ![row_idx].status = "error"]

\* lines 142 and 190 writing the final status at once
mark_running_as_completed(sheet, row_idx) == [sheet EXCEPT ![row_idx].status = "completed"]

\* lines 142 and 190
mark_running(sheet, row_idx) == [sheet EXCEPT ![row_idx].status = "running"]

(***************************************************************************)
(* Initial states.                                                         *)
(***************************************************************************)
GoodConfig == << <<"1">>, <<"x">> >>

\* lines input.txt can hold
ConfigLines ==
    { <<>>, <<SP>>, <<"1">>, <<SP, "2", SP>>, <<"0">>, <<"-", "1">>, <<"-", "0">>,
      <<"1", "0">>, <<"a">>, <<"1", "a">>, <<"-">>, <<"x">> }

RECURSIVE FilesOfLen(_)
FilesOfLen(n) ==
    IF n = 0 THEN {<<>>}
    ELSE {Append(f, l) : f \in FilesOfLen(n - 1), l \in ConfigLines}

ConfigFiles == UNION {FilesOfLen(n) : n \in 0..MaxLines}

\* one valid file, one that load_config refuses, one with a negative count
SampleConfigs == {GoodConfig, << <<"1">> >>, << <<"-", "1">>, <<"x">> >>}

NoFutures == [k \in {} |-> 0]

Fresh(file, cpus, store, time) ==
    /\ cfg_file = file
    /\ cpu_count = cpus
    /\ disk = store
    /\ ws = store
    /\ pc = "load"
    /\ exit_code = -1
    /\ input_col_count = 0
    /\ n_cores = 0
    /\ pending_batches = <<>>
    /\ futures = NoFutures
    /\ next_to_submit = 0
    /\ done = {}
    /\ now = time
    /\ store0 = store
    /\ crashed = FALSE
    /\ outcome = [r \in DOMAIN store |-> "none"]

Init ==
    \E file \in SampleConfigs, cpus \in (ReservedCores + 1)..MaxCpu,
       store \in [Items -> StoredRows] :
        Fresh(file, cpus, store, MaxClock)

\* wb.save(excel_path) left out: the file stays as it was
wb_save_skipped(file, sheet) == file

\* wb.save(excel_path): the file then holds what the worksheet holds
wb_save(file, sheet) == sheet

(***************************************************************************)
(* main(), start-up: lines 86-136.                                         *)
(***************************************************************************)
\* lines 99 and 29-31: load_config raises, prints and calls sys.exit(1)
LoadConfigFails ==
    /\ pc = "load"
    /\ load_config_raises(cfg_file)
    /\ pc' = "exit"
    /\ exit_code' = 1
    /\ UNCHANGED <<cfg_file, cpu_count, disk, ws, input_col_count, n_cores,
                   pending_batches, futures, next_to_submit, done, now, store0,
                   crashed, outcome>>

\* lines 99-100
LoadConfig ==
    /\ pc = "load"
    /\ ~load_config_raises(cfg_file)
    /\ input_col_count' = load_config(cfg_file).num_columns
    /\ n_cores' = find_available_cores(cpu_count)
    /\ pc' = "open"
    /\ UNCHANGED <<cfg_file, cpu_count, disk, ws, exit_code, pending_batches, futures,
                   next_to_submit, done, now, store0, crashed, outcome>>

\* lines 110 and 36-37: ws.cell(row=1, column=start_col + i) raises ValueError for a
\* column below 1; lines 204-206 print it and the process ends with status 0
OpenRaises ==
    /\ pc = "open"
    /\ input_col_count + 1 < 1
    /\ pc' = "exit"
    /\ exit_code' = 0
    /\ UNCHANGED <<cfg_file, cpu_count, disk, ws, input_col_count, n_cores,
                   pending_batches, futures, next_to_submit, done, now, store0,
                   crashed, outcome>>

\* lines 106-115: load the workbook, reset_running_on_resume, save
Reconcile ==
    /\ pc = "open"
    /\ input_col_count + 1 >= 1
    /\ ws' = reset_running_on_resume(disk)
    /\ disk' = wb_save(disk, ws')
    /\ pc' = "normalise"
    /\ UNCHANGED <<cfg_file, cpu_count, exit_code, input_col_count, n_cores,
                   pending_batches, futures, next_to_submit, done, now, store0,
                   crashed, outcome>>

\* where main() goes when nothing is being submitted or handled: the for loop
\* (line 151) while done has futures left, the while loop (line 149) otherwise
Looping(left) == IF left # {} THEN "for_done" ELSE "wait"

\* line 140 without the bound n_cores: every pending row is submitted at once
InitialLoopUnbounded(next, pending) ==
    IF next < Len(pending) THEN "init_submit" ELSE "wait"

\* the first loop (line 140) goes on
InitialLoop(next, pending) ==
    IF next < Min(n_cores, Len(pending)) THEN "init_submit" ELSE "wait"

\* lines 117-136: unknown statuses become pending, save, list the pending rows
Normalise ==
    /\ pc = "normalise"
    /\ ws' = mark_unknown_pending(ws)
    /\ disk' = wb_save(disk, ws')
    /\ pending_batches' = pending_rows(ws')
    /\ futures' = NoFutures
    /\ next_to_submit' = 0
    /\ pc' = InitialLoop(0, pending_batches')
    /\ UNCHANGED <<cfg_file, cpu_count, exit_code, input_col_count, n_cores, done, now,
                   store0, crashed, outcome>>

(***************************************************************************)
(* main(), the scheduler: lines 138-198.                                   *)
(***************************************************************************)
\* executor.submit(process_batch, row_idx, batch_inputs, exe_name, core_no)
Submitted(row_idx, core_no) ==
    [row_idx |-> row_idx, core_no |-> core_no, state |-> "running", start |-> 0, end |-> 0]

\* futures.pop(fut)
Without(fs, k) == [j \in DOMAIN fs \ {k} |-> fs[j]]

\* the row numbers of the in-flight futures map (futures.values())
InFlightRows == {futures[k].row_idx : k \in DOMAIN futures}

\* lines 144 and 192 handing every submission the first slot
core_for_first(next) == 0

\* lines 144 and 192 taking the slot from the time of the submission
core_for_by_clock(next) == now % n_cores

\* the slot the next submission is given (lines 144 and 192)
core_for(next) == next % n_cores

\* lines 140-143: mark the next pending row running and save
InitMark ==
    /\ pc = "init_submit"
    /\ ws' = mark_running(ws, pending_batches[next_to_submit + 1])
    /\ disk' = wb_save(disk, ws')
    /\ pc' = "init_dispatch"
    /\ UNCHANGED <<cfg_file, cpu_count, exit_code, input_col_count, n_cores,
                   pending_batches, futures, next_to_submit, done, now, store0,
                   crashed, outcome>>

\* lines 144-147, and the loop condition of line 140
InitDispatch ==
    /\ pc = "init_dispatch"
    /\ futures' = futures @@ (next_to_submit :>
                     Submitted(pending_batches[next_to_submit + 1], core_for(next_to_submit)))
    /\ next_to_submit' = next_to_submit + 1
    /\ pc' = InitialLoop(next_to_submit', pending_batches)
    /\ UNCHANGED <<cfg_file, cpu_count, disk, ws, exit_code, input_col_count, n_cores,
                   pending_batches, done, now, store0, crashed, outcome>>

\* lines 149-150: wait(FIRST_COMPLETED) returns the futures that have finished
Wait ==
    /\ pc = "wait"
    /\ DOMAIN futures # {}
    /\ \E k \in DOMAIN futures : futures[k].state = "finished"
    /\ done' = {k \in DOMAIN futures : futures[k].state = "finished"}
    /\ pc' = "for_done"
    /\ UNCHANGED <<cfg_file, cpu_count, disk, ws, exit_code, input_col_count, n_cores,
                   pending_batches, futures, next_to_submit, now, store0, crashed,
                   outcome>>

\* lines 151-160: fut.result() raises; mark the row error, save, pop, continue
HandleFault ==
    /\ pc = "for_done"
    /\ \E k \in done :
        /\ ws' = mark_error(ws, futures[k].row_idx)
        /\ disk' = wb_save(disk, ws')
        /\ futures' = Without(futures, k)
        /\ done' = done \ {k}
        /\ outcome' = [outcome EXCEPT ![futures[k].row_idx] = "fault"]
    /\ pc' = Looping(done')
    /\ UNCHANGED <<cfg_file, cpu_count, exit_code, input_col_count, n_cores,
                   pending_batches, next_to_submit, now, store0, crashed>>

\* where main() goes after a result is committed (line 188)
AfterCommit(left) ==
    IF next_to_submit < Len(pending_batches) THEN "replenish" ELSE Looping(left)

\* what the external program did for the row, as the dispatcher learns it
OutcomeOf(prog) == IF prog.launch /\ prog.exit = "zero" THEN "ok" ELSE "failed"

\* lines 151-154 and 162-185: fut.result() returns what process_batch returned in
\* the worker; write the result, save, pop
CommitResult ==
    /\ pc = "for_done"
    /\ \E k \in done, exec \in ExecutionsOf(load_config(cfg_file).exe_name) :
        /\ ws' = commit_result(ws, process_batch(futures[k].row_idx, exec.prog,
                                                 exec.file_ok, futures[k].core_no,
                                                 futures[k].start, futures[k].end))
        /\ disk' = wb_save(disk, ws')
        /\ futures' = Without(futures, k)
        /\ done' = done \ {k}
        /\ outcome' = [outcome EXCEPT ![futures[k].row_idx] = OutcomeOf(exec.prog)]
    /\ pc' = AfterCommit(done')
    /\ UNCHANGED <<cfg_file, cpu_count, exit_code, input_col_count, n_cores,
                   pending_batches, next_to_submit, now, store0, crashed>>

\* lines 188-191: mark the next pending row running and save
ReplenishMark ==
    /\ pc = "replenish"
    /\ ws' = mark_running(ws, pending_batches[next_to_submit + 1])
    /\ disk' = wb_save(disk, ws')
    /\ pc' = "replenish_dispatch"
    /\ UNCHANGED <<cfg_file, cpu_count, exit_code, input_col_count, n_cores,
                   pending_batches, futures, next_to_submit, done, now, store0,
                   crashed, outcome>>

\* lines 192-195
ReplenishDispatch ==
    /\ pc = "replenish_dispatch"
    /\ futures' = futures @@ (next_to_submit :>
                     Submitted(pending_batches[next_to_submit + 1], core_for(next_to_submit)))
    /\ next_to_submit' = next_to_submit + 1
    /\ pc' = Looping(done)
    /\ UNCHANGED <<cfg_file, cpu_count, disk, ws, exit_code, input_col_count, n_cores,
                   pending_batches, done, now, store0, crashed, outcome>>

\* line 149 with futures empty, lines 197-198, then the process ends
FinalSave ==
    /\ pc = "wait"
    /\ DOMAIN futures = {}
    /\ disk' = wb_save(disk, ws)
    /\ pc' = "done"
    /\ exit_code' = 0
    /\ UNCHANGED <<cfg_file, cpu_count, ws, input_col_count, n_cores, pending_batches,
                   futures, next_to_submit, done, now, store0, crashed, outcome>>

(***************************************************************************)
(* The worker processes.  One execution of process_batch takes its start   *)
(* stamp, runs the program, takes its end stamp (the clock may have moved  *)
(* on by then) and ends: it returns, or it raises.  Which of the two, and  *)
(* what it returned, the dispatcher sees when it calls fut.result().       *)
(***************************************************************************)
Later == {t \in {now, now + 1} : t <= MaxClock}

\* lines 68-83 in a worker
WorkerFinishes ==
    \E k \in DOMAIN futures, end \in Later :
        /\ futures[k].state = "running"
        /\ futures' = [futures EXCEPT ![k] =
                          [@ EXCEPT !.state = "finished", !.start = now, !.end = end]]
        /\ now' = end
        /\ UNCHANGED <<cfg_file, cpu_count, disk, ws, pc, exit_code, input_col_count,
                       n_cores, pending_batches, next_to_submit, done, store0, crashed,
                       outcome>>

(***************************************************************************)
(* The dispatcher is killed and started again on the workbook as saved.    *)
(***************************************************************************)
Crash ==
    /\ pc \notin {"exit", "done"}
    /\ ~crashed
    /\ crashed' = TRUE
    /\ ws' = disk
    /\ store0' = disk
    /\ pc' = "load"
    /\ input_col_count' = 0
    /\ n_cores' = 0
    /\ pending_batches' = <<>>
    /\ futures' = NoFutures
    /\ next_to_submit' = 0
    /\ done' = {}
    /\ outcome' = [r \in DOMAIN disk |-> "none"]
    /\ UNCHANGED <<cfg_file, cpu_count, disk, exit_code, now>>

Dispatcher ==
    \/ LoadConfigFails \/ LoadConfig \/ OpenRaises \/ Reconcile \/ Normalise
    \/ InitMark \/ InitDispatch
    \/ Wait \/ HandleFault \/ CommitResult \/ ReplenishMark \/ ReplenishDispatch
    \/ FinalSave

Next == Dispatcher \/ WorkerFinishes

Spec == Init /\ [][Next]_vars

\* a store of pending and completed rows, killed at any point and started again
InitCrash ==
    \E file \in SampleConfigs, cpus \in (ReservedCores + 1)..MaxCpu,
       store \in [Items -> {r \in StoredRows : r.status \in {"pending", "completed"}}] :
        Fresh(file, cpus, store, MaxClock)

\* the dispatcher and the workers keep running
SpecFair == Init /\ [][Next]_vars /\ WF_vars(Next)

NextCrash == Next \/ Crash

SpecCrash == InitCrash /\ [][NextCrash]_vars

\* every config file, on a host and a store that are fixed
InitConfig ==
    \E file \in ConfigFiles :
        Fresh(file, ReservedCores + 1, [r \in Items |-> BlankRow], MaxClock)

SpecConfig == InitConfig /\ [][Next]_vars

\* a row whose earlier result was wider than the region lines 176-178 clear, set
\* back to pending to be run again
WideRow ==
    [status |-> "pending", start_time |-> 1, end_time |-> 1, core |-> 1,
     output |-> "", out |-> OldFields(max_output_clear + 2)]

InitWide ==
    \E file \in SampleConfigs, cpus \in (ReservedCores + 1)..MaxCpu,
       store \in [Items -> {WideRow} \cup {r \in StoredRows : r.status = "completed"}] :
        Fresh(file, cpus, store, MaxClock)

SpecWide == InitWide /\ [][Next]_vars

\* input.txt naming the programs of TabbedStdouts and of LongStdout
OutputConfigs == {<< <<"1">>, <<"t">> >>, << <<"1">>, <<"w">> >>}

\* fresh sheets, run with the programs of OutputConfigs
InitOutputs ==
    \E file \in OutputConfigs \cup (SampleConfigs \ {GoodConfig}),
       cpus \in (ReservedCores + 1)..MaxCpu :
        Fresh(file, cpus, [r \in Items |-> [BlankRow EXCEPT !.status = "pending"]], MaxClock)

SpecOutputs == InitOutputs /\ [][Next]_vars

\* hosts of every size from one core up, on a fresh sheet
InitCores ==
    \E file \in SampleConfigs, cpus \in 1..MaxCpu :
        Fresh(file, cpus, [r \in Items |-> [BlankRow EXCEPT !.status = "pending"]], MaxClock)

SpecCores == InitCores /\ [][Next]_vars

\* a run that starts while the clock still has time to move on
InitClock ==
    \E file \in SampleConfigs, cpus \in (ReservedCores + 1)..MaxCpu :
        Fresh(file, cpus, [r \in Items |-> [BlankRow EXCEPT !.status = "pending"]], 1)

SpecClock == InitClock /\ [][Next]_vars

\* input.txt with no, two and ten input columns
ColumnConfigs ==
    {<< <<"0">>, <<"x">> >>, << <<"2">>, <<"x">> >>, << <<"1", "0">>, <<"x">> >>}

\* sheets of rows to run and rows already run, for every number of input columns
InitColumns ==
    \E file \in ColumnConfigs \cup SampleConfigs,
       store \in [Items -> {r \in StoredRows : r.status \in {"pending", "error"}}] :
        Fresh(file, ReservedCores + 1, store, MaxClock)

SpecColumns == InitColumns /\ [][Next]_vars

\* status cells as a user or an earlier run can have left them
StatusValues ==
    {"pending", "running", "completed", "error", "Pending", "Running ", "Completed",
     None, "", "junk"}

\* a shorter sheet, every status value in every row
InitStatus ==
    \E file \in SampleConfigs,
       store \in [1..(MaxItems - 1) -> {[BlankRow EXCEPT !.status = v] : v \in StatusValues}] :
        Fresh(file, ReservedCores + 1, store, MaxClock)

SpecStatus == InitStatus /\ [][Next]_vars

(***************************************************************************)
(* What the claims speak of.                                               *)
(***************************************************************************)
Range(seq) == {seq[k] : k \in 1..Len(seq)}

RunningRows(sheet) == {r \in DOMAIN sheet : Lowered(sheet[r].status) = "running"}

\* reset_running_on_resume has run and its result is saved
Reconciled == pc \notin {"load", "open", "exit"}

\* the list of line 132 is built
Listed == Reconciled /\ pc # "normalise"

\* the rows this run has marked running so far
MarkedRows ==
    {pending_batches[k] : k \in 1..next_to_submit}
        \cup (IF pc \in {"init_dispatch", "replenish_dispatch"}
              THEN {pending_batches[next_to_submit + 1]} ELSE {})

\* the rows the current run found running, left by a run that was killed
StaleRows == {r \in DOMAIN store0 : Lowered(store0[r].status) = "running"}

CellsOf(fields) == [k \in 1..Len(fields) |-> Cell(fields[k])]

\* the output-field columns a result of one of the executions fills
ResultCells(exec) ==
    CellsOf(output_fields(process_batch(1, exec.prog, exec.file_ok, 0, 0, 0).full_output))

(***************************************************************************)
(* C1: once the run has reconciled the store, at most n_cores rows have    *)
(* status running, in the worksheet and in the saved file, and at most     *)
(* n_cores executions are in the futures map, whatever the order in which  *)
(* executions complete.                                                    *)
(***************************************************************************)
C1_AtMostNRunning ==
    Reconciled =>
        /\ Cardinality(RunningRows(ws)) <= n_cores
        /\ Cardinality(RunningRows(disk)) <= n_cores
        /\ Cardinality(DOMAIN futures) <= n_cores

\* the pool is full again after a completion freed a place
C1_Witness ==
    /\ n_cores = 2
    /\ next_to_submit = 3
    /\ Cardinality(RunningRows(disk)) = 2
    /\ Cardinality(DOMAIN futures) = 2

(***************************************************************************)
(* C2: a row the run found running is pending again, in the worksheet and  *)
(* in the saved file, from the end of reconciliation until the run itself  *)
(* marks it running, so before any submission; and it is in the list of    *)
(* pending rows the scheduler submits from.                                *)
(***************************************************************************)
C2_StaleRunningReset ==
    Reconciled =>
        \A r \in StaleRows :
            /\ r \notin MarkedRows => disk[r].status = "pending" /\ ws[r].status = "pending"
            /\ Listed => r \in Range(pending_batches)

\* a row left running by a killed run is executing again
C2_Witness ==
    \E k \in DOMAIN futures :
        /\ futures[k].row_idx \in StaleRows
        /\ disk[futures[k].row_idx].status = "running"

\* a run that is not killed ends
Terminates == <>(pc \in {"done", "exit"})

(***************************************************************************)
(* C3: when the dispatcher has terminated, every row that was pending      *)
(* after reconciliation has status completed or error.                     *)
(***************************************************************************)
C3_AllPendingSettled ==
    pc = "done" =>
        \A r \in Range(pending_batches) : disk[r].status \in {"completed", "error"}

(***************************************************************************)
(* C4: a fault of one execution does not halt the batch: when the run has  *)
(* ended, every row of the pending list has been submitted.                *)
(***************************************************************************)
C4_FaultKeepsScheduling ==
    pc = "done" /\ (\E r \in DOMAIN outcome : outcome[r] = "fault") =>
        next_to_submit = Len(pending_batches)

(***************************************************************************)
(* C5: no two executions that are running hold the same worker slot.       *)
(***************************************************************************)
C5_SlotsDistinct ==
    \A j, k \in DOMAIN futures :
        j # k /\ futures[j].state = "running" /\ futures[k].state = "running"
            => futures[j].core_no # futures[k].core_no

(***************************************************************************)
(* C6: the output-field columns of a row whose result was committed hold   *)
(* exactly the fields of a result, and no field of an earlier result.      *)
(***************************************************************************)
C6_NoStaleOutputs ==
    \A r \in DOMAIN disk :
        outcome[r] \in {"ok", "failed"} =>
            disk[r].out \in {ResultCells(exec) : exec \in Executions}

(***************************************************************************)
(* C7: on a store whose rows are all completed the run submits nothing     *)
(* and leaves every row as it found it, in memory and on disk.             *)
(***************************************************************************)
AllCompleted(sheet) == \A r \in DOMAIN sheet : Lowered(sheet[r].status) = "completed"

C7_CompletedStoreUntouched ==
    AllCompleted(store0) =>
        /\ disk = store0
        /\ ws = store0
        /\ DOMAIN futures = {}
        /\ next_to_submit = 0
        /\ pending_batches = <<>>
        /\ \A r \in DOMAIN outcome : outcome[r] = "none"

\* a run on such a store has ended
C7_Witness == AllCompleted(store0) /\ pc = "done"

(***************************************************************************)
(* C8: at the end of a run no row is running; a row whose program failed   *)
(* (non-zero exit, or no launch) is completed and its first output field   *)
(* starts with the error annotation; a row whose program exited zero is    *)
(* completed with the fields of its output; and when no execution faulted  *)
(* every row of the pending list is completed.                             *)
(***************************************************************************)
Annotated(row) ==
    /\ row.out # <<>>
    /\ row.out[1] # NoCell
    /\ Head(row.out[1][1]) = "[ERROR]"

C8_ProgramFailureCompletes ==
    pc = "done" =>
        /\ \A r \in DOMAIN disk : Lowered(disk[r].status) # "running"
        /\ \A r \in DOMAIN disk :
              outcome[r] = "failed" => disk[r].status = "completed" /\ Annotated(disk[r])
        /\ \A r \in DOMAIN disk :
              outcome[r] = "ok" =>
                  /\ disk[r].status = "completed"
                  /\ disk[r].out = CellsOf(output_fields(StdoutOK))
        /\ (\A r \in DOMAIN disk : outcome[r] # "fault") =>
              \A r \in Range(pending_batches) :
                  outcome[r] \in {"ok", "failed"} /\ disk[r].status = "completed"

\* a run in which the program failed for one row and not for another has ended
C8_Witness ==
    /\ pc = "done"
    /\ \A r \in DOMAIN disk : outcome[r] # "fault"
    /\ \E r, q \in DOMAIN disk : outcome[r] = "failed" /\ outcome[q] = "ok"

(***************************************************************************)
(* C9: a config file with fewer than two non-empty trimmed lines, or whose *)
(* first line is not a positive integer, ends the process with status 1    *)
(* before anything is scheduled; any other file is loaded.                 *)
(***************************************************************************)
Acceptable(file) ==
    LET lines == StrippedLines(file)
    IN  IF Len(lines) < 2 THEN FALSE
        ELSE IF ~IsIntLiteral(lines[1]) THEN FALSE
        ELSE IntValue(lines[1]) > 0

C9_RejectsBadConfig ==
    pc # "load" =>
        IF Acceptable(cfg_file)
        THEN pc # "exit" /\ input_col_count = IntValue(StrippedLines(cfg_file)[1])
        ELSE pc = "exit" /\ exit_code = 1

(***************************************************************************)
(* C10: after the dispatcher was killed and started again, when the new    *)
(* run has ended, every row that was completed in the saved file is as it  *)
(* was and was not submitted, and every row that was running or pending in *)
(* the saved file has been submitted again.                                *)
(***************************************************************************)
C10_CompletedWorkKept ==
    crashed =>
        \A r \in DOMAIN store0 :
            Lowered(store0[r].status) = "completed" =>
                /\ Reconciled => disk[r] = store0[r] /\ ws[r] = store0[r]
                /\ r \notin MarkedRows
                /\ outcome[r] = "none"

C10_NothingLostNothingRedone ==
    /\ C10_CompletedWorkKept
    /\ crashed /\ pc = "done" =>
          \A r \in DOMAIN store0 :
              Lowered(store0[r].status) \in {"running", "pending"} => outcome[r] # "none"

(***************************************************************************)
(* C11: within one run, once the list of pending rows is built, every      *)
(* change of a row's status, in the worksheet and in the saved file, is    *)
(* pending -> running, running -> completed or running -> error: nothing   *)
(* leaves completed or error, nothing goes from running back to pending,   *)
(* and nothing goes from pending to completed or error at once.            *)
(***************************************************************************)
StatusStep(old, new) ==
    \/ new = old
    \/ Lowered(old) = "pending" /\ new = "running"
    \/ old = "running" /\ new \in {"completed", "error"}

C11_StatusMonotonic ==
    [][Listed =>
          \A r \in DOMAIN ws :
              /\ StatusStep(ws[r].status, ws'[r].status)
              /\ StatusStep(disk[r].status, disk'[r].status)]_vars

\* one row has gone all the way to completed and another all the way to error
C11_Witness ==
    \E r, q \in DOMAIN disk :
        /\ outcome[r] = "ok" /\ disk[r].status = "completed"
        /\ outcome[q] = "fault" /\ disk[q].status = "error"

(***************************************************************************)
(* C12: a row is submitted at most once in a run: the pending list names   *)
(* no row twice, the submissions so far are its first next_to_submit       *)
(* entries, one each, and no two entries of the futures map are for the    *)
(* same row.                                                               *)
(***************************************************************************)
C12_SubmittedAtMostOnce ==
    Listed =>
        /\ \A i, j \in 1..Len(pending_batches) :
              i # j => pending_batches[i] # pending_batches[j]
        /\ next_to_submit <= Len(pending_batches)
        /\ \A k \in DOMAIN futures :
              k < next_to_submit /\ futures[k].row_idx = pending_batches[k + 1]
        /\ \A j, k \in DOMAIN futures :
              j # k => futures[j].row_idx # futures[k].row_idx

\* two executions of different rows are in flight after a third row was done
C12_Witness ==
    /\ Cardinality(InFlightRows) = 2
    /\ \E r \in DOMAIN outcome : outcome[r] # "none"

(***************************************************************************)
(* C13: store writes come before pool actions.  In every step that hands   *)
(* an execution to the pool, the saved file already records that row as    *)
(* running and holds everything the worksheet holds; and in every step     *)
(* that submits a row in reaction to a completion, the saved file already  *)
(* records every row whose execution was handled as completed or error.    *)
(***************************************************************************)
\* the rows whose executions the dispatcher has taken out of the futures map
HandledRows == {r \in DOMAIN outcome : outcome[r] # "none"}

C13_FlushBeforePool ==
    [][/\ \A k \in DOMAIN futures' \ DOMAIN futures :
              /\ disk[futures'[k].row_idx].status = "running"
              /\ disk = ws
       /\ pc \in {"replenish", "replenish_dispatch"} =>
              /\ HandledRows # {}
              /\ \A r \in HandledRows : disk[r].status \in {"completed", "error"}
              /\ \A r \in HandledRows : disk[r] = ws[r]]_vars

\* a row was dispatched in reaction to a completion
C13_Witness ==
    /\ pc = "wait"
    /\ HandledRows # {}
    /\ \E k \in DOMAIN futures : k >= n_cores /\ disk[futures[k].row_idx].status = "running"

(***************************************************************************)
(* C14: every time the dispatcher is at the head of its waiting loop, the  *)
(* saved file holds exactly what the worksheet holds, and the rows whose   *)
(* saved status is running are exactly the rows of the futures map.        *)
(***************************************************************************)
C14_StoreMatchesMemoryAtWait ==
    pc = "wait" =>
        /\ disk = ws
        /\ RunningRows(disk) = InFlightRows

\* the dispatcher waits again after a result was committed and a fault was handled
C14_Witness ==
    /\ pc = "wait"
    /\ InFlightRows # {}
    /\ \E r, q \in DOMAIN outcome : outcome[r] = "fault" /\ outcome[q] \in {"ok", "failed"}

(***************************************************************************)
(* C15: while rows of the pending list are still to be submitted, the pool *)
(* is full every time the dispatcher blocks in wait(): n_cores executions  *)
(* are in the futures map.                                                 *)
(***************************************************************************)
\* C15 for the runs in which no execution has raised
C15_SaturatedWithoutFault ==
    /\ pc = "wait" /\ DOMAIN futures # {}
    /\ next_to_submit < Len(pending_batches)
    /\ \A r \in DOMAIN outcome : outcome[r] # "fault"
    => Cardinality(DOMAIN futures) = n_cores

C15_PoolSaturated ==
    pc = "wait" /\ DOMAIN futures # {} /\ next_to_submit < Len(pending_batches)
        => Cardinality(DOMAIN futures) = n_cores

(***************************************************************************)
(* C16: rows are submitted in sheet order: the pending list is ascending,  *)
(* and whenever a row has been marked running by this run, every pending   *)
(* row with a smaller row number has been marked running by it too.        *)
(***************************************************************************)
C16_SubmittedInStoreOrder ==
    Listed =>
        /\ \A i, j \in 1..Len(pending_batches) :
              i < j => pending_batches[i] < pending_batches[j]
        /\ \A b \in MarkedRows : \A a \in Range(pending_batches) :
              a < b => a \in MarkedRows
        /\ \A a \in Range(pending_batches) \ MarkedRows : disk[a].status = "pending"

\* the later of two rows in flight finishes first and a third row follows it
C16_Witness ==
    /\ next_to_submit = 3
    /\ pending_batches = <<1, 2, 3>>
    /\ outcome[2] # "none" /\ outcome[1] = "none"

(***************************************************************************)
(* C17: the reconciliation at start maps a stored status as follows,       *)
(* comparing after strip() and lower(): running becomes pending; a value   *)
(* other than pending, running and completed (an empty or unset cell and   *)
(* error among them) becomes pending; pending and completed stay as they   *)
(* are.  Its result is in the worksheet and in the saved file before the   *)
(* first row is submitted, nothing else of a row changes, every status is  *)
(* then pending or completed, and the pending list holds exactly the rows  *)
(* that are pending.                                                       *)
(***************************************************************************)
Canonical(v) ==
    CASE v \in {"pending", "Pending"} -> "pending"
      [] v \in {"running", "Running "} -> "running"
      [] v \in {"completed", "Completed"} -> "completed"
      [] OTHER -> "other"

ReconciledStatus(v) == IF Canonical(v) \in {"pending", "completed"} THEN v ELSE "pending"

C17_ReconcilerMapping ==
    Listed =>
        /\ \A r \in DOMAIN store0 \ MarkedRows :
              /\ disk[r] = [store0[r] EXCEPT !.status = ReconciledStatus(@)]
              /\ ws[r] = disk[r]
              /\ Canonical(disk[r].status) \in {"pending", "completed"}
        /\ Range(pending_batches) =
              {r \in DOMAIN store0 : Canonical(ReconciledStatus(store0[r].status)) = "pending"}

\* a sheet with a stale running mark in another case and a completed mark in
\* another case has been reconciled, and nothing is submitted yet
C17_Witness ==
    /\ pc = "init_submit" /\ next_to_submit = 0
    /\ store0[1].status = "Running " /\ disk[1].status = "pending"
    /\ store0[2].status = "Completed" /\ disk[2].status = "Completed"

(***************************************************************************)
(* C18: the first min(n_cores, number of pending rows) rows are submitted  *)
(* before the dispatcher first waits; the k-th submission of the run, k    *)
(* from 0, is handed slot k mod n_cores, and a committed result records    *)
(* it in the core cell as (k mod n_cores) + 1, a number in 1..n_cores.     *)
(***************************************************************************)
C18_RoundRobinSlots ==
    Listed =>
        /\ pc \notin {"init_submit", "init_dispatch"} =>
              next_to_submit >= Min(n_cores, Len(pending_batches))
        /\ pc \in {"init_submit", "init_dispatch"} =>
              done = {} /\ HandledRows = {} /\ next_to_submit < Min(n_cores, Len(pending_batches))
        /\ \A k \in DOMAIN futures : futures[k].core_no = k % n_cores
        /\ \A k \in 0..(Len(pending_batches) - 1) :
              outcome[pending_batches[k + 1]] \in {"ok", "failed"} =>
                  /\ disk[pending_batches[k + 1]].core = (k % n_cores) + 1
                  /\ disk[pending_batches[k + 1]].core \in 1..n_cores

\* with two slots, the third submission was committed with the first slot's number
\* although the second slot was the one that had come free
C18_Witness ==
    /\ n_cores = 2
    /\ pending_batches = <<1, 2, 3>>
    /\ outcome[2] = "ok" /\ outcome[3] = "ok" /\ outcome[1] = "none"
    /\ disk[3].core = 1 /\ disk[2].core = 2

(***************************************************************************)
(* C19: the output-field columns of a row whose program exited zero hold   *)
(* the fields of the first line of what the program printed, split on the  *)
(* tab, in order, from the first output column on; so also when the output *)
(* starts with a blank line, starts with a tab or has a tab at the end of  *)
(* its first line.  A column holding the empty string counts as empty.     *)
(***************************************************************************)
\* the first line of a text, split on the tab
TabFields(text) == Split(UpTo(text, NL), TAB)

\* cells, with the empty string taken as no value
Valued(cells) ==
    TrimCells([k \in 1..Len(cells) |-> IF cells[k] = Cell(<<>>) THEN NoCell ELSE cells[k]])

C19_FirstLineTabSplit ==
    \A r \in DOMAIN disk :
        outcome[r] = "ok" =>
            Valued(disk[r].out) \in
                {Valued(CellsOf(TabFields(exec.prog.stdout))) :
                    exec \in ExecutionsOf(load_config(cfg_file).exe_name)}

(***************************************************************************)
(* C20: no output-field column beyond the max_output_clear columns after   *)
(* the status columns is ever written.                                     *)
(***************************************************************************)
C20_FieldsTruncated ==
    \A r \in DOMAIN disk :
        outcome[r] # "none" =>
            /\ Len(disk[r].out) <= max_output_clear
            /\ Len(ws[r].out) <= max_output_clear

(***************************************************************************)
(* C21: for every execution that has ended in a worker, whatever the       *)
(* program did (exit zero, non-zero exit, no launch) and whether or not    *)
(* the artifact file could be written, process_batch returns a result for  *)
(* the row it was given with status completed; a program failure is the    *)
(* error annotation at the head of the output text, a success is the       *)
(* program's stdout, and a failed artifact write is a note at the end of   *)
(* the output text.  A row whose result was committed is completed.        *)
(***************************************************************************)
WriteNote == <<NL, "[ERROR", SP, "writing", SP, "output", SP, "file]:">>

ErrorHead == <<"[ERROR]", SP, "Exception:", SP>>

StartsWith(text, head) == Len(text) >= Len(head) /\ SubSeq(text, 1, Len(head)) = head

EndsWith(text, tail) ==
    Len(text) >= Len(tail) /\ SubSeq(text, Len(text) - Len(tail) + 1, Len(text)) = tail

\* what process_batch hands back for the execution of future k
Returned(k, prog, file_ok) ==
    process_batch(futures[k].row_idx, prog, file_ok, futures[k].core_no,
                  futures[k].start, futures[k].end)

C21_AlwaysReturnsCompleted ==
    /\ \A k \in DOMAIN futures : \A prog \in Behaviours, file_ok \in BOOLEAN :
          futures[k].state = "finished" =>
              LET res == Returned(k, prog, file_ok)
                  body == IF file_ok THEN res.full_output
                          ELSE SubSeq(res.full_output, 1,
                                      Len(res.full_output) - Len(WriteNote))
              IN  /\ res.status = "completed"
                  /\ res.r_idx = futures[k].row_idx
                  /\ ~file_ok => EndsWith(res.full_output, WriteNote)
                  /\ file_ok => ~EndsWith(res.full_output, WriteNote)
                  /\ IF prog.launch /\ prog.exit = "zero"
                     THEN body = prog.stdout
                     ELSE StartsWith(body, ErrorHead)
    /\ \A r \in DOMAIN disk :
          outcome[r] \in {"ok", "failed"} => ws[r].status = "completed"

\* an execution has ended in a worker after the result of a failed program was
\* committed as completed
C21_Witness ==
    /\ \E k \in DOMAIN futures : futures[k].state = "finished"
    /\ \E r \in DOMAIN disk :
          outcome[r] = "failed" /\ disk[r].status = "completed" /\ Annotated(disk[r])

(***************************************************************************)
(* C22: a step that commits the result of a row, or marks a row error,     *)
(* changes that row only: every other row is the same after the step as    *)
(* before it, in the worksheet and in the saved file, also when a row      *)
(* submitted later is committed before a row submitted earlier.            *)
(***************************************************************************)
C22_CommitTouchesOwnRow ==
    [][\A r \in DOMAIN outcome :
          outcome'[r] # outcome[r] =>
              \A q \in DOMAIN ws \ {r} : ws'[q] = ws[q] /\ disk'[q] = disk[q]]_vars

\* the second of two rows in flight was committed while the first is still running
C22_Witness ==
    /\ n_cores = 2
    /\ outcome[2] = "failed" /\ disk[2].status = "completed" /\ disk[2].core = 2
    /\ outcome[1] = "none" /\ disk[1].status = "running"
    /\ 1 \in InFlightRows

(***************************************************************************)
(* C23: on a host of c >= 1 cores the scheduler works with n_cores = 1 for *)
(* c = 1, 2, 3 and n_cores = c - 2 for larger c; n_cores is never 0 or     *)
(* negative, and it is the number of executions the first loop submits     *)
(* when enough rows are pending.                                           *)
(***************************************************************************)
C23_CoresMinusTwo ==
    pc \notin {"load", "exit"} =>
        /\ n_cores = (IF cpu_count \in {1, 2, 3} THEN 1 ELSE cpu_count - 2)
        /\ n_cores >= 1
        /\ Listed /\ pc \notin {"init_submit", "init_dispatch"} =>
              next_to_submit >= Min(n_cores, Len(pending_batches))
        /\ Cardinality(DOMAIN futures) <= n_cores

\* a host with one core runs one execution at a time
C23_Witness ==
    /\ cpu_count = 1
    /\ n_cores = 1
    /\ Cardinality(DOMAIN futures) = 1
    /\ pc = "wait"

(***************************************************************************)
(* C24: a row that is completed has a start time that is not later than    *)
(* its end time, in the worksheet and in the saved file, during the run    *)
(* and at its end; the clock the workers read does not go backwards.       *)
(***************************************************************************)
C24_StartNotAfterEnd ==
    \A r \in DOMAIN disk :
        /\ Lowered(disk[r].status) = "completed" => disk[r].start_time <= disk[r].end_time
        /\ Lowered(ws[r].status) = "completed" => ws[r].start_time <= ws[r].end_time

\* a run has ended with a row whose program took time and a row whose program
\* started and ended within the same second
C24_Witness ==
    /\ pc = "done"
    /\ \E r, q \in DOMAIN disk :
          /\ disk[r].status = "completed" /\ disk[r].start_time < disk[r].end_time
          /\ disk[q].status = "completed" /\ disk[q].start_time = disk[q].end_time
          /\ disk[q].start_time > 0

(***************************************************************************)
(* C25: a row marked error because its execution faulted differs from the  *)
(* row the run found only in its status: start time, end time, core,       *)
(* output cell and output-field columns are those of the store at the      *)
(* start of the run, values of an earlier run included.                    *)
(***************************************************************************)
C25_ErrorWritesStatusOnly ==
    \A r \in DOMAIN disk :
        outcome[r] = "fault" =>
            /\ disk[r] = [store0[r] EXCEPT !.status = "error"]
            /\ ws[r] = disk[r]

\* a row that carried the result of an earlier run has faulted in this one
C25_Witness ==
    \E r \in DOMAIN disk :
        /\ outcome[r] = "fault"
        /\ store0[r].out = OldFields(5) /\ store0[r].start_time = 1 /\ store0[r].core = 2
        /\ disk[r].out = OldFields(5) /\ disk[r].status = "error"

(***************************************************************************)
(* C26: when a run without faults has ended, everything in the saved file  *)
(* but the time stamps is a function of the store the run found, the host  *)
(* and what the program did for each row: a row of the pending list is     *)
(* completed, carries the slot number of its place in the list, an empty   *)
(* output cell and the fields of its own result written over the cleared   *)
(* columns of the row as found; every other row is as found.  The order in *)
(* which the executions ended does not enter.                              *)
(***************************************************************************)
\* where row r stands in the pending list, from 0
PlaceOf(r) == CHOOSE k \in 0..(Len(pending_batches) - 1) : pending_batches[k + 1] = r

\* the rows line 132 lists for a store, by the mapping of C17
PendingOf(store) ==
    {r \in DOMAIN store : Canonical(ReconciledStatus(store[r].status)) = "pending"}

\* the output-field columns of a row after a result of the given kind
OutsAfter(row, kind) ==
    {write_outputs(clear_outputs(row.out),
                   output_fields(process_batch(1, exec.prog, exec.file_ok, 0, 0, 0).full_output)) :
        exec \in {e \in Executions : OutcomeOf(e.prog) = kind}}

C26_FinalStoreIndependentOfOrder ==
    pc = "done" /\ (\A r \in DOMAIN outcome : outcome[r] # "fault") =>
        /\ Range(pending_batches) = PendingOf(store0)
        /\ \A r \in DOMAIN disk :
              IF r \in PendingOf(store0)
              THEN /\ disk[r].status = "completed"
                   /\ disk[r].core = (PlaceOf(r) % find_available_cores(cpu_count)) + 1
                   /\ disk[r].output = ""
                   /\ disk[r].out \in OutsAfter(store0[r], outcome[r])
              ELSE disk[r] = store0[r]

\* a run has ended in which the second row ended before the first, and the third
\* row, submitted in reaction, carries the first slot all the same
C26_Witness ==
    /\ pc = "done"
    /\ n_cores = 2
    /\ \A r \in DOMAIN outcome : outcome[r] \in {"ok", "failed"}
    /\ disk[2].end_time < disk[1].end_time
    /\ disk[2].core = 2 /\ disk[3].core = 1

====
